---- MODULE Spec2Model ----
(***************************************************************************)
(* har2openapi, src/src/lib.ts: the traffic-to-specification pipeline.     *)
(*                                                                         *)
(* generateSpec folds captured transactions into spec.paths; the example   *)
(* pools of an operation are kept by mergeRequestExample and               *)
(* mergeResponseExample; validateExampleList gates and renumbers a curated *)
(* pool; generateSchema rebuilds a specification from curated examples.    *)
(*                                                                         *)
(* JSON values are ordered trees, as JavaScript keeps them: an object is   *)
(* the sequence of its (key, value) entries in insertion order, and        *)
(* JSONstringify writes the text JSON.stringify writes.                    *)
(***************************************************************************)
EXTENDS Integers, Sequences, FiniteSets, TLC

VARIABLES
    paths,          \* generateSpec: spec.paths, template -> method -> operation
    handled,        \* generateSpec: the har entries handled so far, in order
    exampleObject,  \* validateExampleList: the curated pool it is given
    validation,     \* validateExampleList: its outcome, once it has run
    oldSpec,        \* generateSchema: the paths of output/examples.spec.json
    masterExamples, \* generateSchema: the curated example file, in file order
    newSpec,        \* generateSchema: newSpec.paths
    cursor,         \* generateSchema: how far the loops have come
    inflight,       \* generateSchema: the quicktypeJSON calls not yet settled
    progress,       \* generateSchema: idle, awaiting, done, exit (validation),
                    \* failed (the inferencer rejected) or threw (a TypeError)
    masterSpec,     \* mergeFiles: the paths of the master file
    toMergeSpec,    \* mergeFiles: the paths of the file to merge
    outputSpec,     \* mergeFiles: the paths written to the output file
    pathReplace,    \* filterUrl: config.pathReplace
    rawUrl,         \* filterUrl: the URL of a transaction
    template,       \* filterUrl: filterUrl(config, rawUrl)
    renormalized,   \* filterUrl: filterUrl(config, template)
    tagRules,       \* deriveTag: config.tags
    tagPath,        \* deriveTag: the path template
    tag,            \* deriveTag: deriveTag(tagPath, config)
    callStatus,     \* addResponse: status
    callMethod,     \* addResponse: method
    specPathBefore, \* addResponse: the operation it is given
    specPathAfter   \* addResponse: the operation it leaves

vars == <<paths, handled, exampleObject, validation,
          oldSpec, masterExamples, newSpec, cursor, inflight, progress,
          masterSpec, toMergeSpec, outputSpec,
          pathReplace, rawUrl, template, renormalized, tagRules, tagPath, tag,
          callStatus, callMethod, specPathBefore, specPathAfter>>

----------------------------------------------------------------------------
(* JSON values *)

Num(n) == [k |-> "num", n |-> n, t |-> "", e |-> <<>>]
Str(s) == [k |-> "str", n |-> 0, t |-> s, e |-> <<>>]
Lit(s) == [k |-> "lit", n |-> 0, t |-> s, e |-> <<>>]      \* true, false, null
Null == Lit("null")
Entry(key, val) == [key |-> key, val |-> val]
Arr(items) ==
    [k |-> "arr", n |-> 0, t |-> "",
     e |-> [i \in 1..Len(items) |-> Entry("", items[i])]]
Obj(entries) == [k |-> "obj", n |-> 0, t |-> "", e |-> entries]
EmptyObject == Obj(<<>>)

Keys(v) == [i \in 1..Len(v.e) |-> v.e[i].key]
HasKey(v, key) == v.k = "obj" /\ \E i \in 1..Len(v.e) : v.e[i].key = key
Get(v, key) == v.e[CHOOSE i \in 1..Len(v.e) : v.e[i].key = key].val

\* JavaScript truthiness of a property read, data[key]
Truthy(v) ==
    CASE v.k = "num" -> v.n # 0
      [] v.k = "str" -> v.t # ""
      [] v.k = "lit" -> v.t = "true"
      [] OTHER -> TRUE
PropertyTruthy(v, key) == HasKey(v, key) /\ Truthy(Get(v, key))

\* delete data[key]
DeleteKey(v, key) ==
    IF v.k = "obj"
    THEN Obj(SelectSeq(v.e, LAMBDA en : en.key # key))
    ELSE v

\* Object.keys(data).length
KeyCount(v) ==
    CASE v.k \in {"obj", "arr"} -> Len(v.e)
      [] v.k = "str" -> Len(v.t)
      [] OTHER -> 0

RECURSIVE JSONstringify(_), StringifyItems(_, _, _)
StringifyItems(es, i, isObject) ==
    IF i > Len(es) THEN ""
    ELSE (IF i > 1 THEN "," ELSE "")
         \o (IF isObject THEN "\"" \o es[i].key \o "\":" ELSE "")
         \o JSONstringify(es[i].val)
         \o StringifyItems(es, i + 1, isObject)
JSONstringify(v) ==
    CASE v.k = "num" -> ToString(v.n)
      [] v.k = "str" -> "\"" \o v.t \o "\""
      [] v.k = "lit" -> v.t
      [] v.k = "arr" -> "[" \o StringifyItems(v.e, 1, FALSE) \o "]"
      [] v.k = "obj" -> "{" \o StringifyItems(v.e, 1, TRUE) \o "}"

----------------------------------------------------------------------------
(* deepmerge, as lib.ts calls it: merge(target, source,                    *)
(* {arrayMerge: overwriteMerge})                                           *)

overwriteMerge(destinationArray, sourceArray) == sourceArray

isMergeableObject(v) == v.k \in {"obj", "arr"}

\* destination[key] = val: an existing key keeps its place, a new one is appended
SetKey(entries, key, val) ==
    IF \E i \in 1..Len(entries) : entries[i].key = key
    THEN [i \in 1..Len(entries) |->
            IF entries[i].key = key THEN Entry(key, val) ELSE entries[i]]
    ELSE Append(entries, Entry(key, val))

RECURSIVE merge(_, _), mergeObject(_, _, _, _)
mergeObject(target, source, destination, i) ==
    IF i > Len(source.e) THEN Obj(destination)
    ELSE LET key == source.e[i].key
             val == source.e[i].val
             merged == IF HasKey(target, key) /\ isMergeableObject(val)
                       THEN merge(Get(target, key), val)
                       ELSE val
         IN  mergeObject(target, source, SetKey(destination, key, merged), i + 1)
merge(target, source) ==
    IF (source.k = "arr") # (target.k = "arr") THEN source
    ELSE IF source.k = "arr" THEN overwriteMerge(target, source)
    ELSE mergeObject(target, source,
                     IF target.k = "obj" THEN target.e ELSE <<>>, 1)

\* Object.keys(source) inside deepmerge throws on null
mergeThrows(source) == source = Null

----------------------------------------------------------------------------
(* pad *)

RECURSIVE Zeros(_)
Zeros(n) == IF n <= 0 THEN "" ELSE "0" \o Zeros(n - 1)

pad(m, width) ==
    LET n == ToString(m)
    IN  IF Len(n) >= width THEN n ELSE Zeros(width - Len(n)) \o n

ExampleNameWidth == 4

----------------------------------------------------------------------------
(* strings *)

LowerLetters == "abcdefghijklmnopqrstuvwxyz"
UpperLetters == "ABCDEFGHIJKLMNOPQRSTUVWXYZ"
Digits == {"0", "1", "2", "3", "4", "5", "6", "7", "8", "9"}

CharAt(s, i) == SubSeq(s, i, i)
StartsAt(s, i, pat) ==
    i + Len(pat) - 1 <= Len(s) /\ SubSeq(s, i, i + Len(pat) - 1) = pat
\* String.prototype.includes
Includes(s, pat) == \E i \in 1..(Len(s) - Len(pat) + 1) : StartsAt(s, i, pat)

MapChar(c, from, to) ==
    IF \E i \in 1..Len(from) : CharAt(from, i) = c
    THEN CharAt(to, CHOOSE i \in 1..Len(from) : CharAt(from, i) = c)
    ELSE c
RECURSIVE MapString(_, _, _, _)
MapString(s, i, from, to) ==
    IF i > Len(s) THEN ""
    ELSE MapChar(CharAt(s, i), from, to) \o MapString(s, i + 1, from, to)
toLowerCase(s) == MapString(s, 1, UpperLetters, LowerLetters)
toUpperCase(s) == MapString(s, 1, LowerLetters, UpperLetters)

\* s.replace(/pat/g, repl) for a literal pat
RECURSIVE ReplaceLiteral(_, _, _, _)
ReplaceLiteral(s, i, pat, repl) ==
    IF i > Len(s) THEN ""
    ELSE IF StartsAt(s, i, pat)
         THEN repl \o ReplaceLiteral(s, i + Len(pat), pat, repl)
         ELSE CharAt(s, i) \o ReplaceLiteral(s, i + 1, pat, repl)
\* s.replace(/pat/, repl): the first occurrence only
ReplaceFirst(s, pat, repl) ==
    IF Includes(s, pat)
    THEN LET i == CHOOSE j \in 1..Len(s) :
                    StartsAt(s, j, pat) /\ \A h \in 1..(j - 1) : ~StartsAt(s, h, pat)
         IN  SubSeq(s, 1, i - 1) \o repl \o SubSeq(s, i + Len(pat), Len(s))
    ELSE s

\* s.split(sep) for a one-character sep
RECURSIVE Split(_, _, _, _)
Split(s, i, sep, cur) ==
    IF i > Len(s) THEN <<cur>>
    ELSE IF CharAt(s, i) = sep
         THEN <<cur>> \o Split(s, i + 1, sep, "")
         ELSE Split(s, i + 1, sep, cur \o CharAt(s, i))

capitalize(s) ==
    IF s = "" THEN "" ELSE toUpperCase(CharAt(s, 1)) \o SubSeq(s, 2, Len(s))

----------------------------------------------------------------------------
(* Config: pathReplace is an ordered list of (regular expression,          *)
(* replacement); a pattern is a sequence of atoms, a literal text or \d+.  *)

Literal(s) == [cls |-> "lit", text |-> s]
DigitRun == [cls |-> "digits", text |-> ""]

config ==
    [apiBasePath |-> "api.x",
     pathReplace |->
        << [pattern |-> <<Literal("https://api.x")>>, replacement |-> ""],
           [pattern |-> <<Literal("/accounts/"), DigitRun, Literal("/")>>,
            replacement |-> "/accounts/{account_id}/"],
           [pattern |-> <<Literal("/ping/")>>, replacement |-> ""] >>,
     tags |-> << <<"billing", "Billing">>, <<"account">> >>]

\* end of the longest run of digits starting at i (i - 1 if there is none)
RECURSIVE DigitsEnd(_, _)
DigitsEnd(s, i) ==
    IF i <= Len(s) /\ CharAt(s, i) \in Digits THEN DigitsEnd(s, i + 1) ELSE i - 1

\* the position after a match of atoms[a..] starting at i, or 0 if there is none
RECURSIVE MatchEnd(_, _, _, _)
MatchEnd(s, i, atoms, a) ==
    IF a > Len(atoms) THEN i
    ELSE IF atoms[a].cls = "lit"
         THEN IF StartsAt(s, i, atoms[a].text)
              THEN MatchEnd(s, i + Len(atoms[a].text), atoms, a + 1)
              ELSE 0
         ELSE IF DigitsEnd(s, i) >= i
              THEN MatchEnd(s, DigitsEnd(s, i) + 1, atoms, a + 1)
              ELSE 0

\* filteredUrl.replace(new RegExp(key, 'g'), replacement)
RECURSIVE ReplaceAll(_, _, _, _)
ReplaceAll(s, i, atoms, repl) ==
    IF i > Len(s) THEN ""
    ELSE LET end == MatchEnd(s, i, atoms, 1)
         IN  IF end > i
             THEN repl \o ReplaceAll(s, end, atoms, repl)
             ELSE CharAt(s, i) \o ReplaceAll(s, i + 1, atoms, repl)

RECURSIVE ApplyRules(_, _, _)
ApplyRules(rules, r, s) ==
    IF r > Len(rules) THEN s
    ELSE ApplyRules(rules, r + 1,
                    ReplaceAll(s, 1, rules[r].pattern, rules[r].replacement))

filterUrl(cfg, inputUrl) == ApplyRules(cfg.pathReplace, 1, inputUrl)

RECURSIVE deriveTagFrom_LastMatch(_, _, _)
deriveTagFrom_LastMatch(path, tags, i) ==
    IF i > Len(tags) THEN "Miscellaneous"
    ELSE IF Includes(path, tags[i][1])
            /\ deriveTagFrom_LastMatch(path, tags, i + 1) = "Miscellaneous"
         THEN IF Len(tags[i]) > 1 THEN tags[i][2] ELSE capitalize(tags[i][1])
         ELSE deriveTagFrom_LastMatch(path, tags, i + 1)
RECURSIVE deriveTagFrom(_, _, _)
deriveTagFrom(path, tags, i) ==
    IF i > Len(tags) THEN "Miscellaneous"
    ELSE IF Includes(path, tags[i][1])
         THEN IF Len(tags[i]) > 1 THEN tags[i][2] ELSE capitalize(tags[i][1])
         ELSE deriveTagFrom(path, tags, i + 1)
deriveTag(path, cfg) == deriveTagFrom(path, cfg.tags, 1)

\* pluralize(word, 1) and pluralize(word), for regular nouns
Singular(w) ==
    IF Len(w) > 1 /\ CharAt(w, Len(w)) = "s" THEN SubSeq(w, 1, Len(w) - 1) ELSE w
Plural(w) ==
    IF w = "" \/ CharAt(w, Len(w)) = "s" THEN w ELSE w \o "s"

deriveSummary(method, path) ==
    LET pathParts == Split(path, 1, "/", "")
        lastParam == IF Len(pathParts) > 1 THEN pathParts[Len(pathParts) - 1] ELSE ""
        lastLastParam == IF Len(pathParts) > 3 THEN pathParts[Len(pathParts) - 3] ELSE ""
        obj == IF Includes(lastParam, "_id")
               THEN ReplaceLiteral(ReplaceLiteral(ReplaceLiteral(lastParam, 1, "{", ""),
                                                  1, "}", ""), 1, "_id", "")
               ELSE ""
        gap == IF lastLastParam # "" THEN " " ELSE ""
    IN  CASE lastParam = "login" -> "Log in"
          [] lastParam = "logout" -> "Log out"
          [] obj # "" /\ method = "get" -> capitalize(obj) \o " details"
          [] obj # "" /\ method = "post" -> "Create " \o obj
          [] obj # "" /\ method \in {"patch", "put"} -> "Update " \o obj
          [] obj # "" /\ method = "delete" -> "Delete " \o obj
          [] OTHER ->
             CASE method = "get" ->
                    "List " \o Singular(lastLastParam) \o gap \o Plural(lastParam)
               [] method = "post" ->
                    "Create " \o Singular(lastLastParam) \o gap \o Singular(lastParam)
               [] method \in {"put", "patch"} ->
                    "Update " \o Singular(lastLastParam) \o gap \o Plural(lastParam)
               [] method = "delete" ->
                    "Delete " \o Singular(lastLastParam) \o gap \o Plural(lastParam)
               [] OTHER -> "SUMMARY"

----------------------------------------------------------------------------
(* The specification tree: spec.paths[template] holds the path parameters  *)
(* and one operation per method.  A body holder ("content") is absent, a   *)
(* JSON example pool or the fixed binary-upload shape.                     *)

Example(name, value) == [name |-> name, value |-> value]

SchemaNone == [kind |-> "none", samples |-> <<>>, elementRef |-> ""]
SchemaObject == [kind |-> "object", samples |-> <<>>, elementRef |-> ""]
SchemaBinary == [kind |-> "binary", samples |-> <<>>, elementRef |-> ""]

NoContent == [mime |-> "", examples |-> <<>>, schema |-> SchemaNone]
NewPool ==
    [mime |-> "application/json",
     examples |-> <<Example("example-0001", EmptyObject)>>,
     schema |-> SchemaObject]
BinaryUpload ==
    [mime |-> "multipart/form-data", examples |-> <<>>, schema |-> SchemaBinary]

Assign(f, key, val) ==
    [x \in (DOMAIN f) \cup {key} |-> IF x = key THEN val ELSE f[x]]

NoPaths == [x \in {} |-> 0]

HasOperation(p, path, method) ==
    path \in DOMAIN p /\ method \in DOMAIN p[path].methods
Operation(p, path, method) == p[path].methods[method]
SetOperation(p, path, method, op) ==
    [p EXCEPT ![path].methods = Assign(p[path].methods, method, op)]

\* examples[name] = {value: val}
SetExample(examples, name, val) ==
    IF \E i \in 1..Len(examples) : examples[i].name = name
    THEN [i \in 1..Len(examples) |->
            IF examples[i].name = name THEN Example(name, val) ELSE examples[i]]
    ELSE Append(examples, Example(name, val))

\* the braces of filteredUrl.match(/{.*?}/g), left to right
RECURSIVE PlaceholdersFrom(_, _)
PlaceholdersFrom(s, i) ==
    IF i > Len(s) THEN <<>>
    ELSE IF CharAt(s, i) = "{" /\ \E j \in (i + 1)..Len(s) : CharAt(s, j) = "}"
         THEN LET j == CHOOSE c \in (i + 1)..Len(s) :
                          /\ CharAt(s, c) = "}"
                          /\ \A h \in (i + 1)..(c - 1) : CharAt(s, h) # "}"
              IN  <<SubSeq(s, i, j)>> \o PlaceholdersFrom(s, j + 1)
         ELSE PlaceholdersFrom(s, i + 1)

addPath(filteredUrl, p) ==
    LET parameterList == PlaceholdersFrom(filteredUrl, 1)
        variable(i) ==
            ReplaceLiteral(ReplaceLiteral(parameterList[i], 1, "{", ""), 1, "}", "")
        parameters ==
            [i \in 1..Len(parameterList) |->
                [description |-> "Unique ID of the "
                                 \o ReplaceFirst(variable(i), "_id", "")
                                 \o " you are working with",
                 in |-> "path",
                 name |-> variable(i),
                 required |-> TRUE,
                 default |-> ""]]
    IN  Assign(p, filteredUrl, [parameters |-> parameters, methods |-> NoPaths])

operationIdOf_FromUrl(method, filteredUrl) ==
    method \o "-" \o ReplaceLiteral(filteredUrl, 1, "/", "-")
operationIdOf(method, filteredUrl) ==
    LET trimmed == SubSeq(filteredUrl,
                          IF StartsAt(filteredUrl, 1, "/") THEN 2 ELSE 1,
                          IF Len(filteredUrl) > 0 /\ CharAt(filteredUrl, Len(filteredUrl)) = "/"
                          THEN Len(filteredUrl) - 1 ELSE Len(filteredUrl))
        stripped == ReplaceLiteral(ReplaceLiteral(trimmed, 1, "{", ""), 1, "}", "")
    IN  method \o "-" \o ReplaceLiteral(stripped, 1, "/", "-")

addMethod(method, filteredUrl, originalPath, p, cfg) ==
    SetOperation(p, filteredUrl, method,
        [operationId |-> operationIdOf(method, filteredUrl),
         summary |-> deriveSummary(method, filteredUrl),
         description |-> "",
         parameters |-> <<>>,
         responses |-> NoPaths,
         tags |-> <<deriveTag(filteredUrl, cfg)>>,
         meta |-> [originalPath |-> originalPath, element |-> ""],
         requestBody |-> NoContent])

RECURSIVE addQueryStringParamsFrom(_, _, _, _)
addQueryStringParamsFrom(parameters, methodQueryParameters, harParams, i) ==
    IF i > Len(harParams) THEN parameters
    ELSE IF harParams[i].name \in methodQueryParameters
         THEN addQueryStringParamsFrom(parameters, methodQueryParameters, harParams, i + 1)
         ELSE addQueryStringParamsFrom(
                 Append(parameters,
                        [description |-> harParams[i].name,
                         in |-> "query",
                         name |-> harParams[i].name,
                         required |-> FALSE,
                         default |-> harParams[i].value]),
                 methodQueryParameters, harParams, i + 1)
addQueryStringParams(specMethod, harParams) ==
    LET methodQueryParameters ==
            {specMethod.parameters[i].name :
                i \in {j \in 1..Len(specMethod.parameters) :
                          specMethod.parameters[j].in = "query"}}
    IN  [specMethod EXCEPT !.parameters =
            addQueryStringParamsFrom(specMethod.parameters, methodQueryParameters,
                                     harParams, 1)]

\* the cell of the switch: <<key, description>>, or <<>> where no case applies
ResponseCell_AnyStatus(status, method) ==
    <<ToString(status), "Success">>
ResponseCell(status, method) ==
    CASE status = 200 /\ method = "get" -> <<"200", "Success">>
      [] status = 200 /\ method = "delete" -> <<"200", "Item deleted">>
      [] status = 200 /\ method = "patch" -> <<"200", "Item updated">>
      [] status = 200 /\ method = "post" -> <<"200", "Item created">>
      [] status = 201 /\ method = "post" -> <<"201", "Item created">>
      [] status = 202 /\ method = "post" -> <<"202", "Item created">>
      [] status = 204 /\ method = "get" -> <<"204", "Success">>
      [] status = 204 /\ method = "delete" -> <<"204", "Item deleted">>
      [] status = 204 /\ method \in {"patch", "put"} -> <<"204", "Item updated">>
      [] status = 204 /\ method = "post" -> <<"202", "Item created">>
      [] status = 400 /\ method = "delete" -> <<"400", "Deletion failed - item in use">>
      [] status = 400 -> <<"400", "Bad request">>
      [] status = 401 -> <<"401", "Unauthorized">>
      [] status = 404 -> <<"404", "Item not found">>
      [] status = 405 -> <<"405", "Not allowed">>
      [] OTHER -> <<>>

\* specPath.responses[key] = {"description": text}
NewResponse(responses, key, description) ==
    Assign(responses, key, [description |-> description, content |-> NoContent])

addResponse(status, method, specPath) ==
    LET cell == ResponseCell(status, method)
    IN  IF cell = <<>> THEN specPath
        ELSE [specPath EXCEPT !.responses = NewResponse(@, cell[1], cell[2])]

----------------------------------------------------------------------------
(* Bodies.  A har entry carries text; JSON.parse is the inverse of         *)
(* JSON.stringify on the values below and throws on any other text.        *)

A1 == Obj(<<Entry("a", Num(1))>>)
A2 == Obj(<<Entry("a", Num(2))>>)
B1 == Obj(<<Entry("b", Num(1))>>)
AB == Obj(<<Entry("a", Num(1)), Entry("b", Num(1))>>)
O1 == Obj(<<Entry("o", Obj(<<Entry("x", Num(1))>>)), Entry("l", Arr(<<Num(1), Num(2)>>))>>)
O2 == Obj(<<Entry("l", Arr(<<Num(3)>>)), Entry("o", Obj(<<Entry("y", Num(2))>>))>>)
R1 == Obj(<<Entry("id", Num(42)), Entry("name", Str("a"))>>)
R2 == Obj(<<Entry("id", Num(43)), Entry("name", Str("b")), Entry("extra", Lit("true"))>>)
R3 == Obj(<<Entry("id", Num(42)), Entry("name", Str("a")), Entry("extra", Lit("true"))>>)
T1 == Obj(<<Entry("a", Num(1)), Entry("traceback", Str("tb"))>>)
D1 == Obj(<<Entry("element", Str("shoji:entity")), Entry("description", Str("d"))>>)

JsonValues == {EmptyObject, Null, A1, A2, B1, AB, O1, O2, R1, R2, R3, T1, D1}

ParseTable ==
    [text \in {JSONstringify(v) : v \in JsonValues} |->
        CHOOSE v \in JsonValues : JSONstringify(v) = text]
ParseThrows(text) == text \notin DOMAIN ParseTable
JSONparse(text) == ParseTable[text]

Text(v) == JSONstringify(v)
NotJson == "<html>"

----------------------------------------------------------------------------
(* Example Merge Engine *)

\* as IsDuplicate, comparing with the accumulator only
IsDuplicate_AccumulatorOnly(examples, data) ==
    JSONstringify(data) = JSONstringify(examples[1].value)

\* for (const example in examples) if (dataString === compare) return
IsDuplicate(examples, data) ==
    \E i \in 1..Len(examples) :
        JSONstringify(data) = JSONstringify(examples[i].value)

\* as NextExampleName, numbering from the count itself
NextExampleName_NoIncrement(examples) ==
    "example-" \o pad(Len(examples), ExampleNameWidth)

NextExampleName(examples) ==
    "example-" \o pad(Len(examples) + 1, ExampleNameWidth)

\* as FoldExample, with the arguments of merge exchanged
FoldExample_SourceFirst(examples, data) ==
    LET merged == SetExample(examples, "example-0001",
                             merge(data, examples[1].value))
    IN  SetExample(merged, NextExampleName(merged), data)

\* the accumulator takes the merge, the value becomes a new example
FoldExample(examples, data) ==
    LET merged == SetExample(examples, "example-0001",
                             merge(examples[1].value, data))
    IN  SetExample(merged, NextExampleName(merged), data)

mergeRequestExample(specMethod, postData) ==
    IF postData.text # ""
    THEN IF ParseThrows(postData.text) THEN specMethod
         ELSE IF specMethod.requestBody.mime = "multipart/form-data"
         THEN specMethod        \* content["application/json"] is undefined: caught
         ELSE LET data == JSONparse(postData.text)
                  created == IF specMethod.requestBody = NoContent
                             THEN [specMethod EXCEPT !.requestBody = NewPool]
                             ELSE specMethod
                  examples == created.requestBody.examples
              IN  IF IsDuplicate(examples, data) \/ mergeThrows(data)
                  THEN created
                  ELSE [created EXCEPT
                          !.requestBody.examples = FoldExample(examples, data)]
    ELSE IF specMethod.requestBody = NoContent
         THEN [specMethod EXCEPT !.requestBody = BinaryUpload]
         ELSE specMethod

\* data !== null && Object.keys(data).length > 1, after the traceback is deleted
ResponseFoldable(data) == data # Null /\ KeyCount(data) > 1

mergeResponseExample(specMethod, statusString, content, method, filteredUrl) ==
    IF ParseThrows(content.text) \/ JSONparse(content.text) = Null
    THEN specMethod
    ELSE LET data == DeleteKey(JSONparse(content.text), "traceback")
         IN  IF ~ResponseFoldable(data) THEN specMethod
             ELSE IF statusString \notin DOMAIN specMethod.responses
             THEN specMethod    \* responses[statusString] is undefined: caught
             ELSE LET created ==
                          IF specMethod.responses[statusString].content = NoContent
                          THEN [specMethod EXCEPT
                                  !.responses[statusString].content = NewPool]
                          ELSE specMethod
                      examples == created.responses[statusString].content.examples
                      folded == [created EXCEPT
                                   !.responses[statusString].content.examples =
                                       FoldExample(examples, data)]
                      described ==
                          IF PropertyTruthy(data, "description")
                          THEN [folded EXCEPT
                                  !.description = Get(data, "description").t]
                          ELSE folded
                  IN  IF IsDuplicate(examples, data) THEN created
                      ELSE IF PropertyTruthy(data, "element")
                           THEN [described EXCEPT
                                   !.meta.element = Get(data, "element").t]
                           ELSE described

----------------------------------------------------------------------------
(* The URLs and methods the captured entries use *)

Url42 == "https://api.x/accounts/42/"
Url43 == "https://api.x/accounts/43/"
UrlPing == "https://api.x/ping/"
UrlOther == "https://other.y/accounts/42/"
UrlUsers == "https://api.x/users/"
\* URLs with a query string, each with the queryString list of its HAR entry
Param(name, value) == [name |-> name, value |-> value]
QueryUrls ==
    {[url |-> UrlUsers, queryString |-> <<>>],
     [url |-> "https://api.x/users/?page=1",
      queryString |-> <<Param("page", "1")>>],
     [url |-> "https://api.x/users/?page=1&sort=x",
      queryString |-> <<Param("page", "1"), Param("sort", "x")>>],
     [url |-> "https://api.x/users/?tag=a&tag=b",
      queryString |-> <<Param("tag", "a"), Param("tag", "b")>>],
     [url |-> "https://api.x/accounts/42/?page=1&tag=a&page=2",
      queryString |-> <<Param("page", "1"), Param("tag", "a"), Param("page", "2")>>]}
Urls == {"", Url42, Url43, UrlPing, UrlOther, UrlUsers} \cup {q.url : q \in QueryUrls}
HarMethods == {"", "GET", "POST"}

Templates == [url \in Urls |-> filterUrl(config, url)]
LowerMethods == [m \in HarMethods |-> toLowerCase(m)]
MatchesBasePath == {url \in Urls : Includes(url, config.apiBasePath)}

----------------------------------------------------------------------------
(* generateSpec: the callback of har.log.entries.forEach *)

HarEntry(url, method, queryString, postData, status, content) ==
    [request |-> [url |-> url, method |-> method, queryString |-> queryString,
                  bodySize |-> postData.size, postData |-> [text |-> postData.text]],
     response |-> [status |-> status, bodySize |-> content.size,
                   content |-> [text |-> content.text]]]

Body(text) == [size |-> Len(text), text |-> text]
NoBody == [size |-> 0, text |-> ""]
BinaryBody == [size |-> 7, text |-> ""]

\* as ShouldMergeRequest, whatever the status
ShouldMergeRequest_AnyStatus(it) == it.request.bodySize > 0

\* item.request.bodySize > 0 && item.response.status < 400
ShouldMergeRequest(it) == it.request.bodySize > 0 /\ it.response.status < 400

\* item.response.bodySize > 0
ShouldMergeResponse(it) == it.response.bodySize > 0

\* filterUrl and toLowerCase of the entry, looked up in the tables below
TemplateOf(it) == Templates[it.request.url]
MethodOf(it) == LowerMethods[it.request.method]
Skipped(it) ==
    it.request.url \notin MatchesBasePath \/ TemplateOf(it) = ""

IngestOperation(specMethod0, it, method, filteredUrl) ==
    LET located == [specMethod0 EXCEPT !.meta.originalPath = it.request.url]
        classified == addResponse(it.response.status, method, located)
        queried == addQueryStringParams(classified, it.request.queryString)
        requested == IF ShouldMergeRequest(it)
                     THEN mergeRequestExample(queried, it.request.postData)
                     ELSE queried
    IN  IF ShouldMergeResponse(it)
        THEN mergeResponseExample(requested, ToString(it.response.status),
                                  it.response.content, method, filteredUrl)
        ELSE requested

IngestEntry(p, it) ==
    IF Skipped(it) THEN p
    ELSE LET filteredUrl == TemplateOf(it)
             method == MethodOf(it)
             withPath == IF filteredUrl \in DOMAIN p THEN p ELSE addPath(filteredUrl, p)
             withMethod == IF method \in DOMAIN withPath[filteredUrl].methods
                           THEN withPath
                           ELSE addMethod(method, filteredUrl, it.request.url,
                                          withPath, config)
         IN  SetOperation(withMethod, filteredUrl, method,
                 IngestOperation(Operation(withMethod, filteredUrl, method),
                                 it, method, filteredUrl))

----------------------------------------------------------------------------
(* Inputs of the ingestion run *)

MaxEntries == 2
MaxFolds == 3

\* skipped entries and one of a second template; entries of one template in every combination of method,
\* request body, status and response body; and entries of a second URL of it
HarEntries ==
    {HarEntry(url, "GET", <<>>, NoBody, 200, Body(Text(R1))) :
        url \in {UrlPing, UrlOther, UrlUsers}}
    \cup
    {HarEntry(Url42, method, <<>>, postData, status, content) :
        method \in {"GET", "POST"},
        postData \in {NoBody, BinaryBody, Body(Text(A1))},
        status \in {200, 400, 500},
        content \in {NoBody, Body(Text(R1))}}
    \cup
    {HarEntry(Url42, "GET", <<>>, NoBody, 200, content) :
        content \in {Body(Text(T1)), Body(Text(A1)), Body(NotJson), Body(Text(R3))}}
    \cup
    {HarEntry(Url43, method, <<>>, postData, status, Body(Text(R2))) :
        method \in {"GET", "POST"},
        postData \in {NoBody, Body(Text(A2))},
        status \in {200, 400}}

\* entries with and without query parameters
MaxQueryEntries == 2
QueryEntries ==
    {HarEntry(q.url, method, q.queryString, NoBody, 200, Body(Text(R1))) :
        q \in QueryUrls, method \in {"GET", "POST"}}

\* successful entries of one operation, over every kind of request body
FoldTexts == {Text(v) : v \in {EmptyObject, Null, A1, A2, B1, AB, O1, O2}} \cup {NotJson}
FoldEntries ==
    {HarEntry(Url42, "POST", <<>>, Body(text), 200, NoBody) : text \in FoldTexts}
    \cup
    {HarEntry(Url42, "POST", <<>>, Body(Text(A1)), 200, Body(Text(R1))),
     HarEntry(Url42, "POST", <<>>, Body(Text(A2)), 200, Body(Text(D1)))}

----------------------------------------------------------------------------
(* Example Curation Validator *)

Undefined == Lit("undefined")

NotValidated ==
    [outcome |-> "none", allExamples |-> <<>>, publishExamples |-> <<>>,
     firstExample |-> Undefined]

\* as Publishable, taking every example
Publishable_All(exampleName) == TRUE

\* exampleName.includes('gexample')
Publishable(exampleName) == Includes(exampleName, "gexample")

\* as CurationMissing, not looking at the number of examples
CurationMissing_IgnoringCount(exampleCount, gexampleCount) == gexampleCount = 0

\* exampleCount && !gexampleCount
CurationMissing(exampleCount, gexampleCount) ==
    exampleCount # 0 /\ gexampleCount = 0

\* as RenumberedName, counting from zero
RenumberedName_FromZero(i, count) ==
    "example-" \o pad(i, (count \div 10) + 1)

\* `example-${pad(i + 1, padWidth)}`, padWidth = Math.floor(count / 10) + 1
RenumberedName(i, count) ==
    "example-" \o pad(i + 1, (count \div 10) + 1)

RECURSIVE FirstTruthy(_, _)
FirstTruthy(values, i) ==
    IF i > Len(values) THEN Undefined
    ELSE IF Truthy(values[i]) THEN values[i]
    ELSE FirstTruthy(values, i + 1)

RECURSIVE Renumber(_, _, _)
Renumber(publishExamplesArray, i, publishExamples) ==
    IF i >= Len(publishExamplesArray) THEN publishExamples
    ELSE Renumber(publishExamplesArray, i + 1,
                  SetExample(publishExamples,
                             RenumberedName(i, Len(publishExamplesArray)),
                             publishExamplesArray[i + 1]))

validateExampleList(pool) ==
    LET exampleCount == Len(pool)
        allExamples == [i \in 1..Len(pool) |-> JSONstringify(pool[i].value)]
        published == SelectSeq(pool, LAMBDA ex : Publishable(ex.name))
        publishExamplesArray == [i \in 1..Len(published) |-> published[i].value]
        gexampleCount == Len(published)
    IN  IF CurationMissing(exampleCount, gexampleCount)
        THEN [NotValidated EXCEPT !.outcome = "exit"]
        ELSE [outcome |-> "returned",
              allExamples |-> allExamples,
              publishExamples |-> Renumber(publishExamplesArray, 0, <<>>),
              firstExample |-> FirstTruthy(publishExamplesArray, 1)]

----------------------------------------------------------------------------
(* Curated pools: the i-th example has a value of its own and the name     *)
(* writeExamples gave it, with the published marker where it is flagged.   *)

MaxExamples == 11

CuratedExample(i, flagged) ==
    Example((IF flagged THEN "gexample-" ELSE "example-") \o pad(i, ExampleNameWidth),
            Obj(<<Entry("id", Num(i))>>))
CuratedPool(flags) == [i \in 1..Len(flags) |-> CuratedExample(i, flags[i])]
CuratedPools ==
    {CuratedPool(flags) : flags \in UNION {[1..n -> BOOLEAN] : n \in 0..MaxExamples}}

----------------------------------------------------------------------------
(* generateSchema.  The curated file is walked in file order: a path, its  *)
(* methods, and for each method the request slot and then the response     *)
(* slots.  The run suspends at each await of quicktypeJSON.                *)

CuratedMethod(method, request, response) ==
    [method |-> method, request |-> request, response |-> response]
CuratedResponse(statusCode, examples) ==
    [statusCode |-> statusCode, examples |-> examples]
CuratedPath(path, methods) == [path |-> path, methods |-> methods]

WorkItem(kind, path, method, slot, examples) ==
    [kind |-> kind, path |-> path, method |-> method, slot |-> slot,
     examples |-> examples]

WorkOfMethod(path, m) ==
    <<WorkItem("method", path, m.method, "", <<>>),
      WorkItem("slot", path, m.method, "request", m.request)>>
    \o [i \in 1..Len(m.response) |->
            WorkItem("slot", path, m.method, m.response[i].statusCode,
                     m.response[i].examples)]

RECURSIVE WorkOfMethods(_, _, _)
WorkOfMethods(path, methods, i) ==
    IF i > Len(methods) THEN <<>>
    ELSE WorkOfMethod(path, methods[i]) \o WorkOfMethods(path, methods, i + 1)

RECURSIVE WorkFrom(_, _)
WorkFrom(master, i) ==
    IF i > Len(master) THEN <<>>
    ELSE <<WorkItem("path", master[i].path, "", "", <<>>)>>
         \o WorkOfMethods(master[i].path, master[i].methods, 1)
         \o WorkFrom(master, i + 1)
Work(master) == WorkFrom(master, 1)

\* newSpec.paths[path] = oldSpec.paths[path], or {} where there is none
StartPath(ns, old, path) ==
    Assign(ns, path,
           IF path \in DOMAIN old THEN old[path]
           ELSE [parameters |-> <<>>, methods |-> NoPaths])

\* the operation made where the prior specification has none
SkeletonOperation(path, method) ==
    [operationId |-> operationIdOf(method, path),
     summary |-> operationIdOf(method, path),
     description |-> "",
     parameters |-> <<>>,
     responses |-> NoPaths,
     tags |-> <<"UNKNOWN">>,
     meta |-> [originalPath |-> "https://app.crunch.io/api" \o path, element |-> ""],
     requestBody |-> NoContent]

StartMethod(ns, path, method) ==
    IF method \in DOMAIN ns[path].methods THEN ns
    ELSE SetOperation(ns, path, method, SkeletonOperation(path, method))

\* the call quicktypeJSON('schema', [path, method, 'request'].join("-"), allExamples)
InferenceCall(w) ==
    [typeName |-> w.path \o "-" \o w.method \o "-request",
     samples |-> validateExampleList(w.examples).allExamples]

\* what the inferencer answers: a schema of the samples, with a property
\* "element" when a sample has one
InferredSchema(w) ==
    [kind |-> "inferred",
     samples |-> validateExampleList(w.examples).allExamples,
     elementRef |-> ""]
DeclaresElement(w) ==
    \E i \in 1..Len(w.examples) : HasKey(w.examples[i].value, "element")

\* the switch on exampleStats.firstExample.element
ElementRef(firstExample) ==
    IF ~HasKey(firstExample, "element") THEN ""
    ELSE CASE Get(firstExample, "element") = Str("shoji:entity")
                -> "#/components/schemas/Shoji-entity-element"
           [] Get(firstExample, "element") = Str("shoji:catalog")
                -> "#/components/schemas/Shoji-catalog-element"
           [] Get(firstExample, "element") = Str("shoji:view")
                -> "#/components/schemas/Shoji-view-element"
           [] OTHER -> ""

PostProcessed(w) ==
    IF DeclaresElement(w)
    THEN [InferredSchema(w) EXCEPT
            !.elementRef = ElementRef(validateExampleList(w.examples).firstExample)]
    ELSE InferredSchema(w)

\* reading .element of an undefined firstExample throws
PostProcessThrows(w) ==
    DeclaresElement(w) /\ validateExampleList(w.examples).firstExample = Undefined

JsonContent(schema, examples) ==
    [mime |-> "application/json", examples |-> examples, schema |-> schema]

\* content["application/json"] is undefined: the assignment of .schema throws
AttachThrows(ns, w) ==
    LET methodObject == Operation(ns, w.path, w.method)
    IN  IF w.slot = "request"
        THEN methodObject.requestBody.mime \notin {"", "application/json"}
        ELSE /\ w.slot \in DOMAIN methodObject.responses
             /\ methodObject.responses[w.slot].content.mime # "application/json"

Attach(ns, w) ==
    LET methodObject == Operation(ns, w.path, w.method)
        content == JsonContent(PostProcessed(w),
                               validateExampleList(w.examples).publishExamples)
    IN  SetOperation(ns, w.path, w.method,
            IF w.slot = "request"
            THEN [methodObject EXCEPT !.requestBody = content]
            ELSE [methodObject EXCEPT
                    !.responses =
                        Assign(@, w.slot,
                               [description |->
                                    IF w.slot \in DOMAIN methodObject.responses
                                    THEN methodObject.responses[w.slot].description
                                    ELSE "",
                                content |-> content])])

Run(ns, at, state, calls) ==
    [newSpec |-> ns, cursor |-> at, progress |-> state, inflight |-> calls]

\* the loops from work[at] on, up to the next await, exit(1) or the return
RECURSIVE Advance_Concurrent(_, _, _, _)
Advance_Concurrent(ns, old, work, at) ==
    IF at > Len(work) THEN Run(ns, at, "done", <<>>)
    ELSE LET w == work[at]
             pending == SelectSeq(SubSeq(work, at, Len(work)),
                                  LAMBDA x : x.kind = "slot" /\ Len(x.examples) > 0)
         IN  CASE w.kind = "path" ->
                    Advance_Concurrent(StartPath(ns, old, w.path), old, work, at + 1)
               [] w.kind = "method" ->
                    Advance_Concurrent(StartMethod(ns, w.path, w.method), old, work, at + 1)
               [] OTHER ->
                    IF Len(w.examples) = 0 THEN Advance_Concurrent(ns, old, work, at + 1)
                    ELSE IF validateExampleList(w.examples).outcome = "exit"
                         THEN Run(ns, at, "exit", <<>>)
                         ELSE Run(ns, at, "awaiting",
                                  [j \in 1..Len(pending) |-> InferenceCall(pending[j])])
RECURSIVE Advance(_, _, _, _)
Advance(ns, old, work, at) ==
    IF at > Len(work) THEN Run(ns, at, "done", <<>>)
    ELSE LET w == work[at]
         IN  CASE w.kind = "path" ->
                    Advance(StartPath(ns, old, w.path), old, work, at + 1)
               [] w.kind = "method" ->
                    Advance(StartMethod(ns, w.path, w.method), old, work, at + 1)
               [] OTHER ->
                    IF Len(w.examples) = 0 THEN Advance(ns, old, work, at + 1)
                    ELSE IF validateExampleList(w.examples).outcome = "exit"
                         THEN Run(ns, at, "exit", <<>>)
                         ELSE Run(ns, at, "awaiting", <<InferenceCall(w)>>)

\* the continuation of an await that resolved
Resume(ns, old, work, at) ==
    IF PostProcessThrows(work[at]) \/ AttachThrows(ns, work[at])
    THEN Run(ns, at, "threw", <<>>)
    ELSE Advance(Attach(ns, work[at]), old, work, at + 1)

----------------------------------------------------------------------------
(* Inputs of the reconciliation: prior specifications that generateSpec    *)
(* writes, and curated files over their paths and one new path.            *)

RECURSIVE IngestAll(_, _, _)
IngestAll(p, its, i) ==
    IF i > Len(its) THEN p ELSE IngestAll(IngestEntry(p, its[i]), its, i + 1)

PriorSpecs ==
    {IngestAll(NoPaths, its, 1) :
        its \in {<<>>,
                 <<HarEntry(Url42, "GET", <<>>, NoBody, 200, Body(Text(R1)))>>,
                 <<HarEntry(Url42, "POST", <<>>, Body(Text(A1)), 200, Body(Text(R1))),
                   HarEntry(UrlUsers, "GET", <<>>, NoBody, 200, Body(Text(R1)))>>,
                 <<HarEntry(Url42, "POST", <<>>, BinaryBody, 400, NoBody),
                   HarEntry(Url42, "GET", <<>>, NoBody, 200, Body(Text(R1)))>>,
                 <<HarEntry(Url42, "POST", <<>>, BinaryBody, 200, NoBody)>>}}

ElementPool == <<Example("gexample-0001", D1), Example("example-0002", R1)>>
SlotPools ==
    {CuratedPool(flags) : flags \in {<<>>, <<TRUE>>, <<FALSE, TRUE>>, <<FALSE>>}}

AccountsPath == "/accounts/{account_id}/"
CuratedPaths ==
    {CuratedPath(AccountsPath,
                 <<CuratedMethod("get", <<>>, <<CuratedResponse("200", pool)>>)>>) :
        pool \in SlotPools \cup {ElementPool}}
    \cup
    {CuratedPath(AccountsPath,
                 <<CuratedMethod("post", pool, <<CuratedResponse("400", CuratedPool(<<TRUE>>))>>)>>) :
        pool \in SlotPools}
    \cup
    {CuratedPath("/users/", <<CuratedMethod("get", <<>>, <<>>)>>),
     CuratedPath("/new/",
                 <<CuratedMethod("put", CuratedPool(<<TRUE>>),
                                 <<CuratedResponse("204", CuratedPool(<<TRUE, FALSE>>))>>)>>)}

MaxCuratedPaths == 2

CuratedFiles ==
    {file \in UNION {[1..n -> CuratedPaths] : n \in 0..MaxCuratedPaths} :
        \A i, j \in 1..Len(file) : i # j => file[i].path # file[j].path}

----------------------------------------------------------------------------
(* sortJson (sort-json): the keys of every object in ascending order of    *)
(* their UTF-16 code units, at every depth; arrays keep their order.       *)

CodeUnitOrder ==
    "-./0123456789:ABCDEFGHIJKLMNOPQRSTUVWXYZ_abcdefghijklmnopqrstuvwxyz{}"
CodeUnit(c) == CHOOSE i \in 1..Len(CodeUnitOrder) : CharAt(CodeUnitOrder, i) = c

RECURSIVE StringBefore(_, _, _)
StringBefore(s, t, i) ==
    IF i > Len(s) THEN i <= Len(t)
    ELSE IF i > Len(t) THEN FALSE
    ELSE IF CharAt(s, i) = CharAt(t, i) THEN StringBefore(s, t, i + 1)
    ELSE CodeUnit(CharAt(s, i)) < CodeUnit(CharAt(t, i))

\* items in ascending order of their keys (keys[i] is the key of items[i])
RECURSIVE SortedBy(_, _)
SortedBy(items, keys) ==
    IF Len(items) <= 1 THEN items
    ELSE LET first == CHOOSE i \in 1..Len(items) :
                        \A j \in 1..Len(items) :
                            j = i \/ StringBefore(keys[i], keys[j], 1)
                                  \/ (keys[i] = keys[j] /\ i < j)
             Rest(seq) == [j \in 1..(Len(seq) - 1) |->
                            IF j < first THEN seq[j] ELSE seq[j + 1]]
         IN  <<items[first]>> \o SortedBy(Rest(items), Rest(keys))

RECURSIVE SortValue(_)
SortValue(v) ==
    CASE v.k = "obj" ->
            Obj(SortedBy([i \in 1..Len(v.e) |->
                            Entry(v.e[i].key, SortValue(v.e[i].val))], Keys(v)))
      [] v.k = "arr" ->
            [v EXCEPT !.e = [i \in 1..Len(v.e) |-> Entry("", SortValue(v.e[i].val))]]
      [] OTHER -> v

SortExamples(examples) ==
    SortedBy([i \in 1..Len(examples) |->
                Example(examples[i].name, SortValue(examples[i].value))],
             [i \in 1..Len(examples) |-> examples[i].name])

SortOperation(op) ==
    [op EXCEPT
        !.requestBody.examples = SortExamples(@),
        !.responses = [st \in DOMAIN @ |->
                          [@[st] EXCEPT !.content.examples = SortExamples(@)]]]

sortJson(p) ==
    [path \in DOMAIN p |->
        [p[path] EXCEPT
            !.methods = [method \in DOMAIN @ |-> SortOperation(@[method])]]]

----------------------------------------------------------------------------
(* mergeFiles *)

\* a path of both files: the keys of toMerge that master lacks are copied
\* (path parameters are such a key; generateSpec always writes it)
mergePath_ToMergeWins(masterItem, toMergeItem) ==
    [parameters |-> IF masterItem.parameters = <<>> THEN toMergeItem.parameters
                    ELSE masterItem.parameters,
     methods |-> [method \in DOMAIN masterItem.methods \cup DOMAIN toMergeItem.methods |->
                    IF method \in DOMAIN toMergeItem.methods
                    THEN toMergeItem.methods[method]
                    ELSE masterItem.methods[method]]]
mergePath(masterItem, toMergeItem) ==
    [parameters |-> IF masterItem.parameters = <<>> THEN toMergeItem.parameters
                    ELSE masterItem.parameters,
     methods |-> [method \in DOMAIN masterItem.methods \cup DOMAIN toMergeItem.methods |->
                    IF method \in DOMAIN masterItem.methods
                    THEN masterItem.methods[method]
                    ELSE toMergeItem.methods[method]]]

mergeFiles(master, toMerge) ==
    sortJson([path \in DOMAIN master \cup DOMAIN toMerge |->
                IF path \notin DOMAIN master THEN toMerge[path]
                ELSE IF path \notin DOMAIN toMerge THEN master[path]
                ELSE mergePath(master[path], toMerge[path])])

NotWritten == [x \in {"none"} |-> 0]

\* the files mergeFiles is given
SpecFiles ==
    {IngestAll(NoPaths, its, 1) :
        its \in {<<>>,
                 <<HarEntry(Url42, "GET", <<>>, NoBody, 200, Body(Text(R1)))>>,
                 <<HarEntry(Url43, "GET", <<>>, NoBody, 200, Body(Text(R2)))>>,
                 <<HarEntry(Url42, "POST", <<>>, Body(Text(A1)), 200, Body(Text(R1)))>>,
                 <<HarEntry(Url42, "POST", <<>>, Body(Text(O2)), 200, NoBody)>>,
                 <<HarEntry(Url42, "POST", <<>>, Body(Text(A1)), 200, NoBody),
                   HarEntry(Url42, "POST", <<>>, Body(Text(B1)), 200, NoBody)>>,
                 <<HarEntry(UrlUsers, "GET", <<>>, NoBody, 200, Body(Text(R1)))>>,
                 <<HarEntry(UrlUsers, "GET", <<>>, NoBody, 404, NoBody),
                   HarEntry(Url42, "GET", <<>>, NoBody, 200, Body(Text(R3)))>>,
                 <<HarEntry(Url42, "GET", <<>>, NoBody, 200, Body(Text(R1))),
                   HarEntry(Url42, "POST", <<>>, BinaryBody, 200, NoBody)>>,
                 <<HarEntry(UrlUsers, "GET", <<>>, NoBody, 200, Body(Text(R2))),
                   HarEntry(Url42, "POST", <<>>, Body(Text(A2)), 200, Body(Text(R2)))>>,
                 <<HarEntry(Url43, "GET", <<>>, NoBody, 200, Body(Text(R2))),
                   HarEntry(Url42, "POST", <<>>, Body(Text(A1)), 201, NoBody),
                   HarEntry(UrlUsers, "GET", <<>>, NoBody, 200, Body(Text(R1)))>>}}

----------------------------------------------------------------------------
(* Specifications *)

IngestionIdle == paths = NoPaths /\ handled = <<>>
ValidationIdle == exampleObject = <<>> /\ validation = NotValidated
SchemaIdle ==
    /\ oldSpec = NoPaths /\ masterExamples = <<>> /\ newSpec = NoPaths
    /\ cursor = 0 /\ inflight = <<>> /\ progress = "idle"

ingestVars == <<paths, handled>>
validateVars == <<exampleObject, validation>>
schemaVars == <<oldSpec, masterExamples, newSpec, cursor, inflight, progress>>
mergeVars == <<masterSpec, toMergeSpec, outputSpec>>

MergeIdle ==
    masterSpec = NoPaths /\ toMergeSpec = NoPaths /\ outputSpec = NotWritten

filterVars == <<pathReplace, rawUrl, template, renormalized>>
tagVars == <<tagRules, tagPath, tag>>
classifyVars == <<callStatus, callMethod, specPathBefore, specPathAfter>>
pureVars == <<filterVars, tagVars, classifyVars>>

NotComputed == "(not computed)"
FilterIdle ==
    /\ pathReplace = config.pathReplace /\ rawUrl = ""
    /\ template = NotComputed /\ renormalized = NotComputed
TagIdle == tagRules = config.tags /\ tagPath = "" /\ tag = NotComputed
NotClassified == [responses |-> NotComputed]
ClassifyIdle ==
    /\ callStatus = 0 /\ callMethod = ""
    /\ specPathBefore = NotClassified /\ specPathAfter = NotClassified
PureIdle == FilterIdle /\ TagIdle /\ ClassifyIdle

Init == IngestionIdle /\ ValidationIdle /\ SchemaIdle /\ MergeIdle /\ PureIdle

Step(it) ==
    /\ paths' = IngestEntry(paths, it)
    /\ handled' = Append(handled, it)
    /\ UNCHANGED <<validateVars, schemaVars, mergeVars, pureVars>>

Ingest(it) == Len(handled) < MaxEntries /\ Step(it)
Fold(it) == Len(handled) < MaxFolds /\ Step(it)

Next == \E it \in HarEntries : Ingest(it)
Spec == Init /\ [][Next]_vars

NextFold == \E it \in FoldEntries : Fold(it)
SpecFold == Init /\ [][NextFold]_vars

Query(it) == Len(handled) < MaxQueryEntries /\ Step(it)
NextQuery == \E it \in QueryEntries : Query(it)
SpecQuery == Init /\ [][NextQuery]_vars

InitValidate ==
    /\ IngestionIdle /\ SchemaIdle /\ MergeIdle /\ PureIdle
    /\ exampleObject \in CuratedPools
    /\ validation = NotValidated

Validate ==
    /\ validation = NotValidated
    /\ validation' = validateExampleList(exampleObject)
    /\ UNCHANGED <<ingestVars, exampleObject, schemaVars, mergeVars, pureVars>>

NextValidate == Validate
SpecValidate == InitValidate /\ [][NextValidate]_vars

InitSchema ==
    /\ IngestionIdle /\ ValidationIdle /\ MergeIdle /\ PureIdle
    /\ oldSpec \in PriorSpecs
    /\ masterExamples \in CuratedFiles
    /\ newSpec = NoPaths
    /\ cursor = 0 /\ inflight = <<>> /\ progress = "idle"

Continue(run) ==
    /\ newSpec' = run.newSpec
    /\ cursor' = run.cursor
    /\ progress' = run.progress
    /\ inflight' = run.inflight
    /\ UNCHANGED <<ingestVars, validateVars, oldSpec, masterExamples, mergeVars, pureVars>>

\* generateSchema is called and runs to its first await
Reconcile ==
    /\ progress = "idle"
    /\ Continue(Advance(NoPaths, oldSpec, Work(masterExamples), 1))

\* the awaited call resolves and the run goes on to the next await
InferenceReturns ==
    /\ progress = "awaiting"
    /\ Continue(Resume(newSpec, oldSpec, Work(masterExamples), cursor))

\* the awaited call rejects: nothing catches it
InferenceThrows ==
    /\ progress = "awaiting"
    /\ Continue(Run(newSpec, cursor, "failed", <<>>))

NextSchema == Reconcile \/ InferenceReturns \/ InferenceThrows
SpecSchema == InitSchema /\ [][NextSchema]_vars

InitMerge ==
    /\ IngestionIdle /\ ValidationIdle /\ SchemaIdle /\ PureIdle
    /\ masterSpec \in SpecFiles
    /\ toMergeSpec \in SpecFiles
    /\ outputSpec = NotWritten

MergeFiles ==
    /\ outputSpec = NotWritten
    /\ outputSpec' = mergeFiles(masterSpec, toMergeSpec)
    /\ UNCHANGED <<ingestVars, validateVars, schemaVars, masterSpec, toMergeSpec, pureVars>>

NextMerge == MergeFiles
SpecMerge == InitMerge /\ [][NextMerge]_vars

\* filterUrl under the rule lists a configuration file may hold
MaxRules == 2
PathRules ==
    {config.pathReplace[i] : i \in 1..Len(config.pathReplace)}
    \cup {[pattern |-> <<Literal("/"), DigitRun, Literal("/")>>, replacement |-> "/{id}/"],
          [pattern |-> <<Literal("/users/")>>, replacement |-> "/accounts/0/"]}
RuleLists == UNION {[1..n -> PathRules] : n \in 0..MaxRules}
RawUrls == {Url42, UrlPing, UrlUsers, "https://api.x/accounts/42/43/"}

InitNormalize ==
    /\ IngestionIdle /\ ValidationIdle /\ SchemaIdle /\ MergeIdle
    /\ TagIdle /\ ClassifyIdle
    /\ pathReplace \in RuleLists
    /\ rawUrl \in RawUrls
    /\ template = NotComputed /\ renormalized = NotComputed

Normalize ==
    /\ template = NotComputed
    /\ template' = filterUrl([config EXCEPT !.pathReplace = pathReplace], rawUrl)
    /\ UNCHANGED <<ingestVars, validateVars, schemaVars, mergeVars, tagVars,
                   classifyVars, pathReplace, rawUrl, renormalized>>

Renormalize ==
    /\ template # NotComputed /\ renormalized = NotComputed
    /\ renormalized' = filterUrl([config EXCEPT !.pathReplace = pathReplace], template)
    /\ UNCHANGED <<ingestVars, validateVars, schemaVars, mergeVars, tagVars,
                   classifyVars, pathReplace, rawUrl, template>>

NextNormalize == Normalize \/ Renormalize
SpecNormalize == InitNormalize /\ [][NextNormalize]_vars

\* deriveTag under the tag rules a configuration file may hold
MaxTagRules == 2
TagRules == {<<"billing", "Billing">>, <<"account">>, <<"user", "People">>, <<"ping">>}
TagRuleLists == UNION {[1..n -> TagRules] : n \in 0..MaxTagRules}
TagPaths ==
    {"/account/billing/42/", AccountsPath, "/users/", "/other/", "/billing/"}

InitTag ==
    /\ IngestionIdle /\ ValidationIdle /\ SchemaIdle /\ MergeIdle
    /\ FilterIdle /\ ClassifyIdle
    /\ tagRules \in TagRuleLists
    /\ tagPath \in TagPaths
    /\ tag = NotComputed

DeriveTag ==
    /\ tag = NotComputed
    /\ tag' = deriveTag(tagPath, [config EXCEPT !.tags = tagRules])
    /\ UNCHANGED <<ingestVars, validateVars, schemaVars, mergeVars, filterVars,
                   classifyVars, tagRules, tagPath>>

NextTag == DeriveTag
SpecTag == InitTag /\ [][NextTag]_vars

\* addResponse on the operation of a transaction, for the statuses and
\* methods a capture holds; the operation has seen one transaction before
CallStatuses == {200, 201, 202, 204, 301, 400, 401, 404, 405, 500}
CallMethods == {"get", "post", "put", "patch", "delete", "head", "options"}
NewOperation(method) ==
    Operation(addMethod(method, AccountsPath, Url42,
                        addPath(AccountsPath, NoPaths), config),
              AccountsPath, method)
EarlierOperations(method) ==
    {NewOperation(method),
     addResponse(204, method, NewOperation(method)),
     addResponse(401, method, NewOperation(method)),
     mergeResponseExample(addResponse(200, method, NewOperation(method)), "200",
                          [text |-> Text(R1)], method, AccountsPath)}

InitClassify ==
    /\ IngestionIdle /\ ValidationIdle /\ SchemaIdle /\ MergeIdle
    /\ FilterIdle /\ TagIdle
    /\ callStatus \in CallStatuses
    /\ callMethod \in CallMethods
    /\ specPathBefore \in EarlierOperations(callMethod)
    /\ specPathAfter = NotClassified

Classify ==
    /\ specPathAfter = NotClassified
    /\ specPathAfter' = addResponse(callStatus, callMethod, specPathBefore)
    /\ UNCHANGED <<ingestVars, validateVars, schemaVars, mergeVars, filterVars,
                   tagVars, callStatus, callMethod, specPathBefore>>

NextClassify == Classify
SpecClassify == InitClassify /\ [][NextClassify]_vars

----------------------------------------------------------------------------
(* Reading the state *)

LastEntry == handled[Len(handled)]

RequestBodyOf(p, path, method) ==
    IF HasOperation(p, path, method)
    THEN Operation(p, path, method).requestBody
    ELSE NoContent

ResponseContentOf(p, path, method, statusString) ==
    IF HasOperation(p, path, method)
       /\ statusString \in DOMAIN Operation(p, path, method).responses
    THEN Operation(p, path, method).responses[statusString].content
    ELSE NoContent

\* the examples of a pool besides its accumulator
Individuals(examples) == SelectSeq(examples, LAMBDA ex : ex.name # "example-0001")
Copies(examples, text) ==
    Cardinality({i \in 1..Len(Individuals(examples)) :
                    JSONstringify(Individuals(examples)[i].value) = text})

Operations(p) ==
    UNION {{<<path, method>> : method \in DOMAIN p[path].methods} : path \in DOMAIN p}

\* the response body of an entry reaches the fold
FoldableResponse(it) ==
    /\ ShouldMergeResponse(it)
    /\ ~ParseThrows(it.response.content.text)
    /\ JSONparse(it.response.content.text) # Null
    /\ ResponseFoldable(DeleteKey(JSONparse(it.response.content.text), "traceback"))
ResponseData(it) == DeleteKey(JSONparse(it.response.content.text), "traceback")

\* the classifier has an entry for the pair, under the status itself
Classified(it) ==
    /\ ResponseCell(it.response.status, MethodOf(it)) # <<>>
    /\ ResponseCell(it.response.status, MethodOf(it))[1] = ToString(it.response.status)

SameSlot(a, b) ==
    /\ ~Skipped(a) /\ ~Skipped(b)
    /\ TemplateOf(a) = TemplateOf(b)
    /\ MethodOf(a) = MethodOf(b)
    /\ a.response.status = b.response.status

RECURSIVE MergeAll(_, _, _)
MergeAll(values, i, acc) ==
    IF i > Len(values) THEN acc
    ELSE MergeAll(values, i + 1, merge(acc, values[i]))

----------------------------------------------------------------------------
(* C1: the response pool of an (operation, status) persists across         *)
(* transactions: two transactions of one operation and one classified      *)
(* status with distinct foldable bodies leave two individual examples, and *)
(* no step of the ingestion removes an individual example from a pool.     *)
C1_PoolPersists ==
    [][ /\ \A o \in Operations(paths) :
            \A statusString \in DOMAIN Operation(paths, o[1], o[2]).responses :
                LET before == Individuals(
                        ResponseContentOf(paths, o[1], o[2], statusString).examples)
                    after == Individuals(
                        ResponseContentOf(paths', o[1], o[2], statusString).examples)
                IN  \A i \in 1..Len(before) :
                        \E j \in 1..Len(after) : after[j] = before[i]
        /\ ( /\ Len(handled) = 1 /\ Len(handled') = 2
             /\ SameSlot(handled'[1], handled'[2])
             /\ Classified(handled'[1])
             /\ FoldableResponse(handled'[1]) /\ FoldableResponse(handled'[2])
             /\ handled'[1].response.content.text # handled'[2].response.content.text )
           => Len(Individuals(
                    ResponseContentOf(paths', TemplateOf(handled'[1]),
                                      MethodOf(handled'[1]),
                                      ToString(handled'[1].response.status)).examples)) = 2
      ]_vars

----------------------------------------------------------------------------
(* C2, as claimed: the accumulator of the request pool is the left-fold    *)
(* deep-merge of all the values folded, repetitions included.              *)
RequestValues ==
    [i \in 1..Len(handled) |-> JSONparse(handled[i].request.postData.text)]
AllRequestsAreObjects ==
    \A i \in 1..Len(handled) :
        /\ ~ParseThrows(handled[i].request.postData.text)
        /\ JSONparse(handled[i].request.postData.text).k = "obj"
C2_AccumulatorIsFoldOfAll ==
    (handled # <<>> /\ AllRequestsAreObjects)
    => LET pool == RequestBodyOf(paths, TemplateOf(LastEntry), MethodOf(LastEntry))
       IN  /\ pool.mime = "application/json"
           /\ pool.examples[1].value = MergeAll(RequestValues, 1, EmptyObject)

(* C2, amended: the accumulator of a request pool is the left-fold         *)
(* deep-merge of the values stored as individual examples, in fold order;  *)
(* when every value folded was stored, these are the values folded.        *)
C2_AccumulatorIsFoldOfStored ==
    \A o \in Operations(paths) :
        LET pool == RequestBodyOf(paths, o[1], o[2])
            stored == Individuals(pool.examples)
        IN  pool.mime = "application/json"
            => /\ pool.examples[1].name = "example-0001"
               /\ pool.examples[1].value =
                    MergeAll([i \in 1..Len(stored) |-> stored[i].value], 1, EmptyObject)
               /\ Len(stored) = Len(handled)
                  => \A i \in 1..Len(handled) :
                        /\ ~ParseThrows(handled[i].request.postData.text)
                        /\ stored[i].value = JSONparse(handled[i].request.postData.text)

\* a repeated value was discarded and the accumulator is a proper merge
C2_Witness ==
    \E o \in Operations(paths) :
        LET pool == RequestBodyOf(paths, o[1], o[2])
            stored == Individuals(pool.examples)
        IN  /\ pool.mime = "application/json"
            /\ Len(stored) = 2
            /\ Len(handled) = 3
            /\ handled[3].request.postData.text = handled[1].request.postData.text
            /\ \A i \in 1..2 : pool.examples[1].value # stored[i].value

----------------------------------------------------------------------------
ResponseTexts == {Text(R1), Text(R3), Text(D1), Text(T1), Text(A1), NotJson}
----------------------------------------------------------------------------
(* C4, as claimed: the response body {"a":1} submitted twice for one       *)
(* operation and status leaves a pool of exactly one example, named        *)
(* example-0001, with the accumulator {"a":1}; and a pool that received    *)
(* its first value holds it under example-0001 alone.                      *)
ScenarioB == HarEntry(Url42, "GET", <<>>, NoBody, 200, Body(Text(A1)))
C4_FirstIsExample0001 ==
    /\ handled = <<ScenarioB, ScenarioB>>
       => ResponseContentOf(paths, TemplateOf(ScenarioB), "get", "200").examples
            = <<Example("example-0001", A1)>>
    /\ ( /\ Len(handled) = 1 /\ ~Skipped(handled[1])
         /\ ShouldMergeRequest(handled[1])
         /\ handled[1].request.postData.text = Text(A1) )
       => RequestBodyOf(paths, TemplateOf(handled[1]), MethodOf(handled[1])).examples
            = <<Example("example-0001", A1)>>

(* C4, amended: the entries of every pool are named example-0001 (the      *)
(* accumulator), example-0002, ... in insertion order, so the first value  *)
(* folded into an empty pool is stored under example-0002; the request     *)
(* body {"a":1}, or a response body of more than one top-level key,        *)
(* submitted twice leaves the accumulator example-0001 equal to it and     *)
(* exactly one individual example, example-0002; the response body         *)
(* {"a":1} has one top-level key and is not folded: it leaves no pool.     *)
NamedInOrder(examples) ==
    \A i \in 1..Len(examples) :
        examples[i].name = "example-" \o pad(i, ExampleNameWidth)
C4_FirstIsExample0002 ==
    /\ \A o \in Operations(paths) :
          /\ NamedInOrder(RequestBodyOf(paths, o[1], o[2]).examples)
          /\ \A statusString \in DOMAIN Operation(paths, o[1], o[2]).responses :
                NamedInOrder(ResponseContentOf(paths, o[1], o[2], statusString).examples)
    /\ ( /\ Len(handled) = 2 /\ handled[1] = handled[2] /\ ~Skipped(handled[1]) )
       => LET it == handled[1]
              request == RequestBodyOf(paths, TemplateOf(it), MethodOf(it))
              response == ResponseContentOf(paths, TemplateOf(it), MethodOf(it),
                                            ToString(it.response.status))
          IN  /\ (ShouldMergeRequest(it) /\ it.request.postData.text = Text(A1))
                 => request.examples = <<Example("example-0001", A1),
                                         Example("example-0002", A1)>>
              /\ (Classified(it) /\ FoldableResponse(it))
                 => response.examples = <<Example("example-0001", ResponseData(it)),
                                          Example("example-0002", ResponseData(it))>>
              /\ it.response.content.text = Text(A1) => response = NoContent

\* the request body {"a":1} was submitted twice and is stored as example-0002
C4_Witness ==
    /\ Len(handled) = 2 /\ handled[1] = handled[2]
    /\ handled[1].request.postData.text = Text(A1)
    /\ handled[1].response.status = 200
    /\ RequestBodyOf(paths, TemplateOf(handled[1]), MethodOf(handled[1])).examples
         = <<Example("example-0001", A1), Example("example-0002", A1)>>

----------------------------------------------------------------------------
(* C5: a transaction whose response status is 400 or above leaves the      *)
(* request slot of every operation as it was, whatever its request body:   *)
(* no request pool is created and none gains an example.                   *)
C5_FailedRequestNotFolded ==
    [][ (handled' # handled /\ handled'[Len(handled')].response.status >= 400)
        => \A o \in Operations(paths') :
              RequestBodyOf(paths', o[1], o[2]) = RequestBodyOf(paths, o[1], o[2])
      ]_vars

\* a failed transaction carried a new JSON body past a pool that holds another
C5_Witness ==
    /\ Len(handled) = 2
    /\ ~Skipped(LastEntry)
    /\ LastEntry.response.status >= 400
    /\ LastEntry.request.bodySize > 0
    /\ ~ParseThrows(LastEntry.request.postData.text)
    /\ LET pool == RequestBodyOf(paths, TemplateOf(LastEntry), MethodOf(LastEntry))
       IN  /\ Len(Individuals(pool.examples)) = 1
           /\ Copies(pool.examples, LastEntry.request.postData.text) = 0

----------------------------------------------------------------------------
(* C6: a transaction whose (status, method) the classifier has no entry    *)
(* for gets no response description, and its foldable response body is     *)
(* recorded as an example of that operation and status all the same.       *)
C6_UnclassifiedIsRecorded ==
    ( /\ handled # <<>>
      /\ ~Skipped(LastEntry)
      /\ ResponseCell(LastEntry.response.status, MethodOf(LastEntry)) = <<>>
      /\ FoldableResponse(LastEntry) )
    => LET op == Operation(paths, TemplateOf(LastEntry), MethodOf(LastEntry))
           statusString == ToString(LastEntry.response.status)
       IN  /\ statusString \in DOMAIN op.responses => op.responses[statusString].description = ""
           /\ \E i \in 1..Len(ResponseContentOf(paths, TemplateOf(LastEntry),
                                                MethodOf(LastEntry), statusString).examples) :
                 ResponseContentOf(paths, TemplateOf(LastEntry), MethodOf(LastEntry),
                                   statusString).examples[i].value = ResponseData(LastEntry)

----------------------------------------------------------------------------
(* Reading a curated pool *)

Flagged(ex) == SubSeq(ex.name, 1, 1) = "g"
FlaggedExamples == SelectSeq(exampleObject, Flagged)
Returned == validation.outcome = "returned"

(* C8: the validator ends in the error outcome exactly when the pool has   *)
(* at least one example and no example name carries the published marker;  *)
(* a pool of zero examples passes with an empty published set.             *)
C8_CurationGate ==
    validation # NotValidated
    => /\ validation.outcome = "exit"
            <=> (Len(exampleObject) >= 1 /\ Len(FlaggedExamples) = 0)
       /\ Len(exampleObject) = 0
            => (Returned /\ validation.publishExamples = <<>>)

\* a pool of several examples, none flagged, was refused
C8_Witness ==
    /\ validation.outcome = "exit"
    /\ Len(exampleObject) >= 2
    /\ Len(FlaggedExamples) = 0

----------------------------------------------------------------------------
(* C9, as claimed: the published set is keyed example-0001, example-0002,  *)
(* ... up to the number of flagged examples.                               *)
C9_KeysHaveFourDigits ==
    Returned
    => /\ Len(validation.publishExamples) = Len(FlaggedExamples)
       /\ \A i \in 1..Len(validation.publishExamples) :
             validation.publishExamples[i].name = "example-" \o pad(i, 4)

(* C9, amended: with k flagged examples the published set has k keys, the  *)
(* i-th being example- followed by i written in decimal and zero-padded to *)
(* floor(k / 10) + 1 digits (example-1 .. example-9 for k < 10,            *)
(* example-01 .. for 10 <= k < 20), and it holds the i-th flagged example. *)
C9_KeysAreContiguous ==
    Returned
    => LET k == Len(FlaggedExamples)
       IN  /\ Len(validation.publishExamples) = k
           /\ \A i \in 1..k :
                 /\ validation.publishExamples[i].value = FlaggedExamples[i].value
                 /\ k < 10 => validation.publishExamples[i].name
                                = "example-" \o ToString(i)
                 /\ (10 <= k /\ k < 20)
                    => validation.publishExamples[i].name
                         = "example-" \o (IF i < 10 THEN "0" ELSE "") \o ToString(i)

\* ten examples are published around one that is not flagged
C9_Witness ==
    /\ Returned
    /\ Len(validation.publishExamples) = 10
    /\ Len(exampleObject) = 11
    /\ ~Flagged(exampleObject[5])
    /\ validation.publishExamples[10].name = "example-10"

----------------------------------------------------------------------------
(* C10: renumbering is a re-keying: the values of publishExamples are the  *)
(* values of the flagged examples in their order; every example, flagged   *)
(* or not, has its entry in allExamples; and no example that is not        *)
(* flagged is published.                                                   *)
C10_RenumberingIsRekeying ==
    Returned
    => /\ Len(validation.publishExamples) = Len(FlaggedExamples)
       /\ \A i \in 1..Len(FlaggedExamples) :
             validation.publishExamples[i].value = FlaggedExamples[i].value
       /\ Len(validation.allExamples) = Len(exampleObject)
       /\ \A i \in 1..Len(exampleObject) :
             /\ validation.allExamples[i] = JSONstringify(exampleObject[i].value)
             /\ ~Flagged(exampleObject[i])
                => \A j \in 1..Len(validation.publishExamples) :
                      validation.publishExamples[j].value # exampleObject[i].value

\* flagged examples on both sides of one that is not flagged
C10_Witness ==
    /\ Returned
    /\ Len(exampleObject) = 3
    /\ Flagged(exampleObject[1]) /\ ~Flagged(exampleObject[2]) /\ Flagged(exampleObject[3])
    /\ Len(validation.publishExamples) = 2

----------------------------------------------------------------------------
(* C7: reconciliation is non-destructive: every operation of the prior     *)
(* specification that the curated file does not mention, also one whose    *)
(* whole path the file does not mention, is in the result as it was.       *)
Mentions(master, path, method) ==
    \E i \in 1..Len(master) :
        /\ master[i].path = path
        /\ \E j \in 1..Len(master[i].methods) : master[i].methods[j].method = method
C7_UnmentionedCarriedOver ==
    progress = "done"
    => \A o \in Operations(oldSpec) :
          ~Mentions(masterExamples, o[1], o[2])
          => /\ HasOperation(newSpec, o[1], o[2])
             /\ Operation(newSpec, o[1], o[2]) = Operation(oldSpec, o[1], o[2])

----------------------------------------------------------------------------
(* C11: the merged file holds every (path, method) of either input; an     *)
(* operation of master is exactly master's, an operation of toMerge alone  *)
(* is exactly toMerge's.                                                   *)
Written == outputSpec # NotWritten
HasEveryOperation ==
    Operations(outputSpec) = Operations(masterSpec) \cup Operations(toMergeSpec)
C11_MasterWinsVerbatim ==
    Written
    => /\ HasEveryOperation
       /\ \A o \in Operations(outputSpec) :
            Operation(outputSpec, o[1], o[2]) =
                IF o \in Operations(masterSpec)
                THEN Operation(masterSpec, o[1], o[2])
                ELSE Operation(toMergeSpec, o[1], o[2])

(* C11, as the code has it: the merged file holds every (path, method) of  *)
(* either input; an operation of master is master's and an operation of    *)
(* toMerge alone is toMerge's, each with the keys of its objects sorted at *)
(* every depth and nothing of the other file's operation merged into it.   *)
C11_MasterWinsSorted ==
    Written
    => /\ HasEveryOperation
       /\ \A o \in Operations(outputSpec) :
            Operation(outputSpec, o[1], o[2]) =
                SortOperation(IF o \in Operations(masterSpec)
                              THEN Operation(masterSpec, o[1], o[2])
                              ELSE Operation(toMergeSpec, o[1], o[2]))

\* both files have an operation and differ on it, and toMerge adds a method
\* to a path of master and a whole path
C11_Witness ==
    /\ Written
    /\ \E o \in Operations(masterSpec) \cap Operations(toMergeSpec) :
          Operation(masterSpec, o[1], o[2]) # Operation(toMergeSpec, o[1], o[2])
    /\ \E o \in Operations(toMergeSpec) \ Operations(masterSpec) :
          o[1] \in DOMAIN masterSpec
    /\ \E o \in Operations(toMergeSpec) : o[1] \notin DOMAIN masterSpec

----------------------------------------------------------------------------
(* C12: the set of individual example values stored in each pool does not  *)
(* depend on the order of ingestion: every permutation of the transactions *)
(* ingested so far leaves the same set in every pool.                      *)
Orders(n) ==
    {f \in [1..n -> 1..n] : \A i, j \in 1..n : f[i] = f[j] => i = j}
Reordered(its, f) == [i \in 1..Len(its) |-> its[f[i]]]
StoredValues(content) ==
    {Individuals(content.examples)[i].value :
        i \in 1..Len(Individuals(content.examples))}
SameStoredValues(p, q) ==
    /\ Operations(p) = Operations(q)
    /\ \A o \in Operations(p) :
        /\ StoredValues(RequestBodyOf(p, o[1], o[2]))
              = StoredValues(RequestBodyOf(q, o[1], o[2]))
        /\ \A st \in DOMAIN Operation(p, o[1], o[2]).responses
                     \cup DOMAIN Operation(q, o[1], o[2]).responses :
              StoredValues(ResponseContentOf(p, o[1], o[2], st))
                  = StoredValues(ResponseContentOf(q, o[1], o[2], st))
C12_OrderIndependent ==
    \A f \in Orders(Len(handled)) :
        SameStoredValues(paths, IngestAll(NoPaths, Reordered(handled, f), 1))

----------------------------------------------------------------------------
(* C13: a transaction with status below 400 and a non-empty, parseable     *)
(* JSON request body is folded into the request pool of its operation:     *)
(* right after it is ingested the pool holds an individual example whose   *)
(* serialization is that body, whatever was ingested before.               *)
JsonRequest(it) ==
    /\ ~Skipped(it)
    /\ it.response.status < 400
    /\ it.request.bodySize > 0
    /\ it.request.postData.text # ""
    /\ ~ParseThrows(it.request.postData.text)
C13_JsonRequestIsStored ==
    (handled # <<>> /\ JsonRequest(LastEntry))
    => Copies(RequestBodyOf(paths, TemplateOf(LastEntry), MethodOf(LastEntry)).examples,
              JSONstringify(JSONparse(LastEntry.request.postData.text))) >= 1

----------------------------------------------------------------------------
(* C14: in every state of the ingestion the operationId of the operation   *)
(* at (template t, method m) is m, a hyphen, and t without its leading and *)
(* trailing slash and without braces, the other slashes turned to hyphens; *)
(* it never changes once assigned, whatever the order of arrival.          *)
RECURSIVE IdCharacters(_, _)
IdCharacters(t, i) ==
    IF i > Len(t) THEN ""
    ELSE (CASE CharAt(t, i) \in {"{", "}"} -> ""
            [] CharAt(t, i) = "/" -> IF i = 1 \/ i = Len(t) THEN "" ELSE "-"
            [] OTHER -> CharAt(t, i))
         \o IdCharacters(t, i + 1)
IdentityHolds ==
    \A o \in Operations(paths) :
        Operation(paths, o[1], o[2]).operationId = o[2] \o "-" \o IdCharacters(o[1], 1)
IdentityKept ==
    \A o \in Operations(paths) :
        /\ o \in Operations(paths')
        /\ Operation(paths', o[1], o[2]).operationId
              = Operation(paths, o[1], o[2]).operationId
C14_StableOperationId == []IdentityHolds /\ [][IdentityKept]_vars

\* two URLs of one template have arrived for one method
C14_Witness ==
    /\ Len(handled) = 2
    /\ handled[1].request.url # handled[2].request.url
    /\ SameSlot(handled[1], handled[2])
    /\ HasOperation(paths, AccountsPath, "get")
    /\ Operation(paths, AccountsPath, "get").operationId = "get-accounts-account_id"

----------------------------------------------------------------------------
(* C15: filterUrl is idempotent: for any rule list, normalizing again a    *)
(* template that came from normalizing a URL gives the same template.      *)
C15_NormalizeIdempotent ==
    renormalized # NotComputed => renormalized = template

----------------------------------------------------------------------------
(* C16: deriveTag is first-match-wins: the tag comes from the first rule,  *)
(* in configured order, whose keyword is a substring of the path, its      *)
(* display name if it has one and else its keyword capitalized, also when  *)
(* a later rule matches; with no matching rule it is the fallback.         *)
Matching == {i \in 1..Len(tagRules) : Includes(tagPath, tagRules[i][1])}
FirstMatching == CHOOSE i \in Matching : \A j \in Matching : i <= j
C16_FirstMatchWins ==
    tag # NotComputed
    => /\ Matching = {} => tag = "Miscellaneous"
       /\ Matching # {}
            => tag = IF Len(tagRules[FirstMatching]) > 1
                     THEN tagRules[FirstMatching][2]
                     ELSE toUpperCase(CharAt(tagRules[FirstMatching][1], 1))
                          \o SubSeq(tagRules[FirstMatching][1], 2,
                                    Len(tagRules[FirstMatching][1]))
       /\ (tagRules = << <<"billing", "Billing">>, <<"account">> >>
             /\ tagPath = "/account/billing/42/") => tag = "Billing"

\* both rules of the example match its path, and the first one gave the tag
C16_Witness ==
    /\ tagRules = << <<"billing", "Billing">>, <<"account">> >>
    /\ tagPath = "/account/billing/42/"
    /\ Matching = {1, 2}
    /\ tag = "Billing"

----------------------------------------------------------------------------
(* C17: addResponse makes no response entry and leaves the response map    *)
(* as it was for every status outside {200,201,202,204,400,401,404,405}    *)
(* and for every method outside {get,post,put,patch,delete}.               *)
TableStatuses == {200, 201, 202, 204, 400, 401, 404, 405}
TableMethods == {"get", "post", "put", "patch", "delete"}
ClassifyDone == specPathAfter # NotClassified
C17_OutsideTableNoEntry ==
    (ClassifyDone /\ (callStatus \notin TableStatuses \/ callMethod \notin TableMethods))
    => specPathAfter.responses = specPathBefore.responses

(* C17, as the code has it: no entry is made and the response map is left  *)
(* as it was for every status outside the eight, whatever the method, and  *)
(* for a method outside the five at the statuses 200, 201, 202 and 204; at *)
(* 400, 401, 404 and 405 such a method gets the entry of its status, which *)
(* holds a description only.                                               *)
C17_OutsideStatusesNoEntry ==
    ClassifyDone
    => /\ callStatus \notin TableStatuses => specPathAfter = specPathBefore
       /\ (callMethod \notin TableMethods /\ callStatus \in {200, 201, 202, 204})
            => specPathAfter = specPathBefore
       /\ (callMethod \notin TableMethods /\ callStatus \in {400, 401, 404, 405})
            => /\ DOMAIN specPathAfter.responses
                    = DOMAIN specPathBefore.responses \cup {ToString(callStatus)}
               /\ specPathAfter.responses[ToString(callStatus)].content = NoContent
               /\ \A key \in DOMAIN specPathBefore.responses \ {ToString(callStatus)} :
                     specPathAfter.responses[key] = specPathBefore.responses[key]

\* a status and a method outside the table have met an operation that has
\* a response, and left it alone
C17_Witness ==
    /\ ClassifyDone
    /\ callStatus = 500 /\ callMethod = "options"
    /\ DOMAIN specPathBefore.responses = {"401"}
    /\ specPathAfter = specPathBefore

----------------------------------------------------------------------------
(* C19: for every status s and method m, addResponse changes no key of the *)
(* response map other than the string form of s.                           *)
C19_OnlyOwnKeyChanges ==
    ClassifyDone
    => \A key \in (DOMAIN specPathBefore.responses \cup DOMAIN specPathAfter.responses)
                  \ {ToString(callStatus)} :
          /\ key \in DOMAIN specPathBefore.responses
          /\ key \in DOMAIN specPathAfter.responses
          /\ specPathAfter.responses[key] = specPathBefore.responses[key]

----------------------------------------------------------------------------
(* C18: the inference calls of a reconciliation are strictly sequential:   *)
(* at most one call is outstanding at any time, it is the call of the slot *)
(* the run has come to, and it was issued only after the call of every     *)
(* earlier slot had returned and its result had been attached.             *)
NeedsInference(w) == w.kind = "slot" /\ Len(w.examples) > 0
SlotContent(ns, w) ==
    IF w.slot = "request" THEN RequestBodyOf(ns, w.path, w.method)
    ELSE ResponseContentOf(ns, w.path, w.method, w.slot)
EarlierSlots ==
    {j \in 1..(cursor - 1) : NeedsInference(Work(masterExamples)[j])}
OneCallAtATime ==
    /\ Len(inflight) <= 1
    /\ inflight # <<>> <=> progress = "awaiting"
    /\ progress = "awaiting"
        => /\ NeedsInference(Work(masterExamples)[cursor])
           /\ inflight[1] = InferenceCall(Work(masterExamples)[cursor])
           /\ \A j \in EarlierSlots :
                SlotContent(newSpec, Work(masterExamples)[j]).schema.kind = "inferred"
SlotsInOrder == inflight' # <<>> => cursor' > cursor
C18_InferenceSequential == []OneCallAtATime /\ [][SlotsInOrder]_vars

\* the call of a second slot is outstanding
C18_Witness ==
    /\ progress = "awaiting"
    /\ Len(inflight) = 1
    /\ EarlierSlots # {}

----------------------------------------------------------------------------
(* C20: when every non-empty slot of the curated file has a flagged        *)
(* example and the inferencer succeeds, the reconciliation completes       *)
(* without error and every slot with a curated example carries the         *)
(* inferred schema and exactly the published examples of the validator,    *)
(* whether or not the prior specification had JSON content for the slot.   *)
EverySlotCurated ==
    \A j \in 1..Len(Work(masterExamples)) :
        NeedsInference(Work(masterExamples)[j])
        => validateExampleList(Work(masterExamples)[j].examples).outcome # "exit"
C20_EverySlotAttached ==
    EverySlotCurated
    => /\ progress \notin {"threw", "exit"}
       /\ progress = "done"
            => \A j \in 1..Len(Work(masterExamples)) :
                  LET w == Work(masterExamples)[j]
                  IN  NeedsInference(w)
                      => /\ SlotContent(newSpec, w).schema.kind = "inferred"
                         /\ SlotContent(newSpec, w).schema.samples
                              = validateExampleList(w.examples).allExamples
                         /\ SlotContent(newSpec, w).examples
                              = validateExampleList(w.examples).publishExamples

----------------------------------------------------------------------------
(* C21: after any sequence of transactions the parameter list of every     *)
(* operation has at most one query parameter entry per parameter name,     *)
(* also when the query string of one transaction repeats a name.           *)
QueryParameters(op) ==
    SelectSeq(op.parameters, LAMBDA param : param.in = "query")
C21_OneEntryPerName ==
    \A o \in Operations(paths) :
        LET declared == QueryParameters(Operation(paths, o[1], o[2]))
        IN  \A i, j \in 1..Len(declared) :
                declared[i].name = declared[j].name => i = j

====
